---- MODULE Spec2Model ----
(***************************************************************************)
(* Model of wayshot (src/src/main.rs): one capture of one output over the  *)
(* wlr-screencopy protocol.  main() is a single sequential process; the    *)
(* only points where the display server acts on the program's state are    *)
(* the sync_roundtrip calls, during which the registered event handlers    *)
(* run, one event at a time.  create_shm_fd() is modelled as a sub-machine *)
(* (shm_pc) that main() calls and waits for.                               *)
(***************************************************************************)
EXTENDS Integers, Sequences, FiniteSets, TLC

VARIABLES
    pc,                 \* position of main()
    exit_status,        \* "running" | "ok" | "error" | "panic"
    error,              \* which error ended the run ("" while none)
    globals,            \* interfaces in the GlobalManager's registry
    outputs,            \* Rc<RefCell<Vec<Main<WlOutput>>>>
    outputs_done,       \* AtomicBool
    output,             \* Option: the output picked by first()
    frame_requested,    \* the frame object exists and has its handler
    frame_formats,      \* Rc<RefCell<Vec<FrameFormat>>>
    frame_state,        \* Rc<RefCell<Option<FrameState>>>
    frame_buffer_done,  \* AtomicBool
    frame_format,       \* Option<FrameFormat>: the selected one
    frame_bytes,        \* u32
    shm_pc,             \* position inside create_shm_fd
    mem_file_handle,    \* name used by the shm_open fallback
    sys_time,           \* SystemTime::now() taken once at the fallback
    shm_objects,        \* names that exist in the POSIX shm namespace
    shm_fd,             \* descriptor held inside create_shm_fd
    shm_errno,          \* errno kept across the unlink/close arms
    shm_result,         \* what create_shm_fd returned
    eexist_count,       \* history: shm_open calls that reported EEXIST
    memfd_last,         \* history: the last outcome of memfd_create
    mem_fd,             \* Option<RawFd> in main
    file_len,           \* Option: length given to set_len
    pool,               \* Option: create_pool request
    buffer,             \* Option: create_buffer request
    copy_sent,          \* frame.copy was issued
    mmap,               \* Option: the mapped bytes
    color_type,
    writer,             \* bytes held by the BufWriter
    enc_pos,            \* segments the encoder has handed to the writer
    stdout,             \* bytes that reached standard output
    first_terminal,     \* history: the first of Ready/Failed delivered
    late_events,        \* history: the kinds of frame events delivered after
                        \* frame.copy
    err_log,            \* history: the error outcomes that were not retried
    n_fmt, n_buf, n_orig, n_count   \* the normalizer applied on its own

mainVars == <<pc, exit_status, error, globals, outputs, outputs_done, output,
              frame_requested, frame_formats, frame_state, frame_buffer_done,
              frame_format, frame_bytes, mem_fd, file_len, pool, buffer,
              copy_sent, mmap, color_type, writer, enc_pos, stdout,
              first_terminal, late_events>>
shmVars == <<shm_pc, mem_file_handle, sys_time, shm_objects, shm_fd,
             shm_errno, shm_result, eexist_count, memfd_last>>
normVars == <<n_fmt, n_buf, n_orig, n_count>>
vars == <<mainVars, err_log, shmVars, normVars>>

-----------------------------------------------------------------------------
(* Bounds of the model *)

\* u32/i32 are modelled WordBits wide
WordBits == 5
\* cap on the length of frame_formats
MaxFormats == 3
\* cap on the length of outputs
MaxOutputs == 2
\* cap on the number of EEXIST outcomes of one create_shm_fd
MaxShmTries == 3
\* capacity of the BufWriter, in segments
BufCapacity == 2
\* longest buffer the normalizer is applied to on its own
MaxBufLen == 5

-----------------------------------------------------------------------------
(* Values *)

RECURSIVE Pow2(_)
Pow2(n) == IF n = 0 THEN 1 ELSE 2 * Pow2(n - 1)

U32Modulus == Pow2(WordBits)

\* x as i32, for a u32 x
AsI32(x) == IF x >= Pow2(WordBits - 1) THEN x - U32Modulus ELSE x

\* stride * height on u32, release build
WrappingMul(a, b) == (a * b) % U32Modulus

None == <<>>
Some(x) == <<x>>
IsSome(o) == Len(o) = 1
Unwrap(o) == o[1]

Formats == {"Argb8888", "Xrgb8888", "Xbgr8888", "Rgb565"}

Interfaces == {"wl_output", "wl_shm", "zwlr_screencopy_manager_v1"}

\* The Buffer events the server may send
BufferChoices ==
    { [format |-> "Rgb565",   width |-> 2, height |-> 1, stride |-> 4],
      [format |-> "Argb8888", width |-> 2, height |-> 1, stride |-> 8],
      [format |-> "Xbgr8888", width |-> 3, height |-> Pow2(WordBits - 3),
                              stride |-> 4],
      [format |-> "Xrgb8888", width |-> 1, height |-> Pow2(WordBits - 2),
                              stride |-> 8] }

OutputEvents == {"Geometry", "Mode", "Done", "Scale"}

\* what the allocator's system calls may return when create_shm_fd is
\* followed on its own
Fds == {3, 4}
Nanos == {0, 1}
Errnos == {"EACCES", "EIO"}

\* and what they may return in the run of the whole program
RunFds == {3}
RunNanos == {0}
RunErrnos == {"EACCES"}

-----------------------------------------------------------------------------
(* State after construction *)

ctlVars == <<pc, exit_status, error, err_log>>
discVars == <<globals, outputs, outputs_done, output>>
frameVars == <<frame_requested, frame_formats, frame_state, frame_buffer_done,
               first_terminal, late_events>>
selVars == <<frame_format, frame_bytes>>
bufVars == <<mem_fd, file_len, pool, buffer, copy_sent>>
outVars == <<mmap, color_type, writer, enc_pos, stdout>>

MainInit ==
    /\ pc = "connect"
    /\ exit_status = "running"
    /\ error = ""
    /\ globals = {}
    /\ outputs = <<>>
    /\ outputs_done = FALSE
    /\ output = None
    /\ frame_requested = FALSE
    /\ frame_formats = <<>>
    /\ frame_state = None
    /\ frame_buffer_done = FALSE
    /\ frame_format = None
    /\ frame_bytes = 0
    /\ mem_fd = None
    /\ file_len = None
    /\ pool = None
    /\ buffer = None
    /\ copy_sent = FALSE
    /\ mmap = None
    /\ color_type = ""
    /\ writer = <<>>
    /\ enc_pos = 0
    /\ stdout = <<>>
    /\ first_terminal = ""
    /\ late_events = {}
    /\ err_log = {}

ShmInit ==
    /\ shm_pc = "idle"
    /\ mem_file_handle = <<>>
    /\ sys_time = 0
    /\ shm_objects = {}
    /\ shm_fd = None
    /\ shm_errno = ""
    /\ shm_result = None
    /\ eexist_count = 0
    /\ memfd_last = ""

NormIdle ==
    /\ n_fmt = ""
    /\ n_buf = <<>>
    /\ n_orig = <<>>
    /\ n_count = 0

Init == MainInit /\ ShmInit /\ NormIdle

\* `?` and bail!: main returns Err, the process exits with a failure status
Fail(err) ==
    /\ pc' = "exit"
    /\ exit_status' = "error"
    /\ error' = err
    /\ err_log' = err_log \cup {err}

-----------------------------------------------------------------------------
(* Display session and output discovery *)

\* Display::connect_to_env()?
Connect ==
    /\ pc = "connect"
    /\ \/ pc' = "rt_globals" /\ UNCHANGED <<exit_status, error, err_log>>
       \/ Fail("ConnectionError")
    /\ UNCHANGED <<discVars, frameVars, selVars, bufVars, outVars, shmVars,
                   normVars>>

InRoundtrip == pc \in {"rt_globals", "rt_outputs", "rt_formats", "rt_copy"}

\* event_queue.sync_roundtrip(..)? returning Err
RoundtripErr ==
    /\ InRoundtrip
    /\ Fail("RoundtripError")
    /\ UNCHANGED <<discVars, frameVars, selVars, bufVars, outVars, shmVars,
                   normVars>>

\* the first round-trip: the GlobalManager learns what the server advertises
RoundtripGlobals ==
    /\ pc = "rt_globals"
    /\ \E g \in SUBSET Interfaces : globals' = g
    /\ pc' = "bind_output"
    /\ UNCHANGED <<exit_status, error, err_log, outputs, outputs_done, output,
                   frameVars, selVars, bufVars, outVars, shmVars, normVars>>

\* globals.instantiate_exact::<WlOutput>(2)? and quick_assign
BindOutput ==
    /\ pc = "bind_output"
    /\ IF "wl_output" \in globals
         THEN pc' = "wait_outputs" /\ UNCHANGED <<exit_status, error, err_log>>
         ELSE Fail("MissingGlobal")
    /\ UNCHANGED <<discVars, frameVars, selVars, bufVars, outVars, shmVars,
                   normVars>>

\* faulty variant: the proxy is pushed in the Geometry arm only
OutputEventPushOnGeometry(ev) ==
    /\ pc \in {"rt_outputs", "rt_formats", "rt_copy"}
    /\ Len(outputs) < MaxOutputs
    /\ outputs' = IF ev = "Geometry" THEN Append(outputs, "wl_output")
                                     ELSE outputs
    /\ outputs_done' = IF ev = "Done" THEN TRUE ELSE outputs_done
    /\ UNCHANGED <<ctlVars, globals, output, frameVars, selVars, bufVars,
                   outVars, shmVars, normVars>>

\* the wl_output handler: every event pushes the proxy, Done sets the flag
OutputEvent(ev) ==
    /\ pc \in {"rt_outputs", "rt_formats", "rt_copy"}
    /\ Len(outputs) < MaxOutputs
    /\ outputs' = Append(outputs, "wl_output")
    /\ outputs_done' = IF ev = "Done" THEN TRUE ELSE outputs_done
    /\ UNCHANGED <<ctlVars, globals, output, frameVars, selVars, bufVars,
                   outVars, shmVars, normVars>>

\* while !outputs_done.load(..)
OutputsLoop ==
    /\ pc = "wait_outputs"
    /\ pc' = IF outputs_done THEN "pick_output" ELSE "rt_outputs"
    /\ UNCHANGED <<exit_status, error, err_log, discVars, frameVars, selVars, bufVars,
                   outVars, shmVars, normVars>>

\* sync_roundtrip returning Ok inside one of the three loops
RoundtripOk ==
    /\ pc \in {"rt_outputs", "rt_formats", "rt_copy"}
    /\ pc' = CASE pc = "rt_outputs" -> "wait_outputs"
               [] pc = "rt_formats" -> "wait_formats"
               [] pc = "rt_copy" -> "check_state"
    /\ UNCHANGED <<exit_status, error, err_log, discVars, frameVars, selVars, bufVars,
                   outVars, shmVars, normVars>>

\* outputs.borrow().first().cloned()
PickOutput ==
    /\ pc = "pick_output"
    /\ IF outputs # <<>>
         THEN /\ output' = Some(Head(outputs))
              /\ pc' = "bind_screencopy"
              /\ UNCHANGED <<exit_status, error, err_log>>
         ELSE /\ Fail("NoOutputAvailable")
              /\ UNCHANGED output
    /\ UNCHANGED <<globals, outputs, outputs_done, frameVars, selVars,
                   bufVars, outVars, shmVars, normVars>>

-----------------------------------------------------------------------------
(* Capture negotiation *)

\* globals.instantiate_exact::<ZwlrScreencopyManagerV1>(3)?
BindScreencopy ==
    /\ pc = "bind_screencopy"
    /\ IF "zwlr_screencopy_manager_v1" \in globals
         THEN pc' = "capture_output" /\ UNCHANGED <<exit_status, error, err_log>>
         ELSE Fail("MissingGlobal")
    /\ UNCHANGED <<discVars, frameVars, selVars, bufVars, outVars, shmVars,
                   normVars>>

\* screencopy_manager.capture_output(0, ..) and frame.quick_assign
CaptureOutput ==
    /\ pc = "capture_output"
    /\ frame_requested' = TRUE
    /\ pc' = "wait_formats"
    /\ UNCHANGED <<exit_status, error, err_log, discVars, frame_formats, frame_state,
                   frame_buffer_done, first_terminal, late_events, selVars, bufVars,
                   outVars, shmVars, normVars>>

FrameDispatch == frame_requested /\ pc \in {"rt_formats", "rt_copy"}

\* the event is recorded when it arrives after frame.copy
Delivered(kind) ==
    late_events' = IF copy_sent THEN late_events \cup {kind} ELSE late_events

\* faulty variant: a Buffer event replaces a selection already made
OnBufferReselects(f) ==
    /\ FrameDispatch
    /\ Len(frame_formats) < MaxFormats
    /\ frame_formats' = Append(frame_formats, f)
    /\ frame_format' = IF frame_format # <<>> THEN <<f>> ELSE frame_format
    /\ Delivered("Buffer")
    /\ UNCHANGED <<ctlVars, discVars, frame_requested, frame_state,
                   frame_buffer_done, first_terminal, frame_bytes, bufVars,
                   outVars, shmVars, normVars>>

\* Event::Buffer { format, width, height, stride }
OnBuffer(f) ==
    /\ FrameDispatch
    /\ Len(frame_formats) < MaxFormats
    /\ frame_formats' = Append(frame_formats, f)
    /\ Delivered("Buffer")
    /\ UNCHANGED <<ctlVars, discVars, frame_requested, frame_state,
                   frame_buffer_done, first_terminal, selVars, bufVars,
                   outVars, shmVars, normVars>>

\* Event::Flags, Event::Damage, Event::LinuxDmabuf: empty arms
OnFlags == FrameDispatch /\ UNCHANGED vars
OnDamage == FrameDispatch /\ UNCHANGED vars
OnLinuxDmabuf == FrameDispatch /\ UNCHANGED vars

\* Event::Ready
OnReady ==
    /\ FrameDispatch
    /\ frame_state' = Some("Finished")
    /\ first_terminal' = IF first_terminal = "" THEN "Ready" ELSE first_terminal
    /\ Delivered("Ready")
    /\ UNCHANGED <<ctlVars, discVars, frame_requested, frame_formats,
                   frame_buffer_done, selVars, bufVars, outVars, shmVars,
                   normVars>>

\* Event::Failed
OnFailed ==
    /\ FrameDispatch
    /\ frame_state' = Some("Failed")
    /\ first_terminal' = IF first_terminal = "" THEN "Failed" ELSE first_terminal
    /\ Delivered("Failed")
    /\ UNCHANGED <<ctlVars, discVars, frame_requested, frame_formats,
                   frame_buffer_done, selVars, bufVars, outVars, shmVars,
                   normVars>>

\* Event::BufferDone
OnBufferDone ==
    /\ FrameDispatch
    /\ frame_buffer_done' = TRUE
    /\ Delivered("BufferDone")
    /\ UNCHANGED <<ctlVars, discVars, frame_requested, frame_formats,
                   frame_state, first_terminal, selVars, bufVars, outVars,
                   shmVars, normVars>>

\* faulty variant: the loop ends as soon as one format has arrived
FormatsLoopOnFirstFormat ==
    /\ pc = "wait_formats"
    /\ pc' = IF frame_formats # <<>> THEN "select" ELSE "rt_formats"
    /\ UNCHANGED <<exit_status, error, err_log, discVars, frameVars, selVars, bufVars,
                   outVars, shmVars, normVars>>

\* while !frame_buffer_done.load(..)
FormatsLoop ==
    /\ pc = "wait_formats"
    /\ pc' = IF frame_buffer_done THEN "select" ELSE "rt_formats"
    /\ UNCHANGED <<exit_status, error, err_log, discVars, frameVars, selVars, bufVars,
                   outVars, shmVars, normVars>>

SupportedFormats == {"Argb8888", "Xrgb8888", "Xbgr8888"}

\* faulty variant: the filter lets every format through
IsSupportedAny(f) == f.format \in Formats

\* the filter closure
IsSupported(f) == f.format \in SupportedFormats

\* faulty variant: .last() in place of .nth(0)
SelectLastSupported(formats) ==
    LET kept == SelectSeq(formats, IsSupported)
    IN  IF kept = <<>> THEN None ELSE Some(kept[Len(kept)])

\* .iter().filter(..).nth(0).copied()
SelectFrameFormat(formats) ==
    LET kept == SelectSeq(formats, IsSupported)
    IN  IF kept = <<>> THEN None ELSE Some(Head(kept))

\* the selection and the match that bails when it is None
SelectFormat ==
    /\ pc = "select"
    /\ frame_format' = SelectFrameFormat(frame_formats)
    /\ IF IsSome(frame_format')
         THEN pc' = "frame_bytes" /\ UNCHANGED <<exit_status, error, err_log>>
         ELSE Fail("UnsupportedFormat")
    /\ UNCHANGED <<discVars, frameVars, frame_bytes, bufVars, outVars,
                   shmVars, normVars>>

-----------------------------------------------------------------------------
(* Buffer provisioning *)

\* let frame_bytes = frame_format.stride * frame_format.height;
\* u32 multiplication: a build with overflow checks panics when the product
\* does not fit, a build without them wraps
ComputeFrameBytes ==
    /\ pc = "frame_bytes"
    /\ LET f == Unwrap(frame_format)
       IN  \/ /\ frame_bytes' = WrappingMul(f.stride, f.height)
              /\ pc' = "create_shm"
              /\ UNCHANGED <<exit_status, error, err_log>>
           \/ /\ f.stride * f.height >= U32Modulus
              /\ pc' = "exit"
              /\ exit_status' = "panic"
              /\ error' = "MultiplyOverflow"
              /\ err_log' = err_log \cup {"MultiplyOverflow"}
              /\ UNCHANGED frame_bytes
    /\ UNCHANGED <<discVars, frameVars, frame_format, bufVars, outVars,
                   shmVars, normVars>>

\* main enters create_shm_fd()
CallCreateShmFd ==
    /\ pc = "create_shm"
    /\ shm_pc = "idle"
    /\ pc' = "in_create_shm"
    /\ shm_pc' = "memfd"
    /\ UNCHANGED <<exit_status, error, err_log, discVars, frameVars, selVars, bufVars,
                   outVars, mem_file_handle, sys_time, shm_objects, shm_fd,
                   shm_errno, shm_result, eexist_count, memfd_last, normVars>>

Ok(fd) == [ok |-> TRUE, fd |-> fd, errno |-> ""]
Err(errno) == [ok |-> FALSE, fd |-> 0, errno |-> errno]

\* memfd_create(..) => Ok(fd): the seals are applied (sealed tells whether
\* fcntl succeeded) and `let _ =` drops the result
MemfdOk(fd, sealed) ==
    /\ shm_pc = "memfd"
    /\ err_log' = IF sealed THEN err_log ELSE err_log \cup {"F_ADD_SEALS"}
    /\ shm_result' = Some(Ok(fd))
    /\ shm_pc' = "return"
    /\ memfd_last' = "Ok"
    /\ UNCHANGED <<mainVars, mem_file_handle, sys_time, shm_objects, shm_fd,
                   shm_errno, eexist_count, normVars>>

\* Err(EINTR) => continue
MemfdEintr ==
    /\ shm_pc = "memfd"
    /\ memfd_last' = "EINTR"
    /\ UNCHANGED <<mainVars, err_log, shm_pc, mem_file_handle, sys_time,
                   shm_objects, shm_fd, shm_errno, shm_result, eexist_count,
                   normVars>>

\* faulty variant: Err(ENOSYS) falls into the arm that returns the errno
MemfdEnosysReturned ==
    /\ shm_pc = "memfd"
    /\ shm_result' = Some(Err("ENOSYS"))
    /\ shm_pc' = "return"
    /\ memfd_last' = "ENOSYS"
    /\ UNCHANGED <<mainVars, err_log, mem_file_handle, sys_time, shm_objects,
                   shm_fd, shm_errno, eexist_count, normVars>>

\* Err(ENOSYS) => break
MemfdEnosys ==
    /\ shm_pc = "memfd"
    /\ shm_pc' = "fallback"
    /\ memfd_last' = "ENOSYS"
    /\ UNCHANGED <<mainVars, err_log, mem_file_handle, sys_time, shm_objects,
                   shm_fd, shm_errno, shm_result, eexist_count, normVars>>

\* Err(errno) => return Err(errno)
MemfdErr(errno) ==
    /\ shm_pc = "memfd"
    /\ err_log' = err_log \cup {errno}
    /\ shm_result' = Some(Err(errno))
    /\ shm_pc' = "return"
    /\ memfd_last' = errno
    /\ UNCHANGED <<mainVars, mem_file_handle, sys_time, shm_objects, shm_fd,
                   shm_errno, eexist_count, normVars>>

\* format!("/wayshot-{}", sys_time...subsec_nanos())
HandleFor(t) == <<"/wayshot-", t>>

\* let sys_time = SystemTime::now(); let mut mem_file_handle = format!(..)
ShmFallback(t) ==
    /\ shm_pc = "fallback"
    /\ sys_time' = t
    /\ mem_file_handle' = HandleFor(t)
    /\ shm_pc' = "shm_open"
    /\ UNCHANGED <<mainVars, err_log, shm_objects, shm_fd, shm_errno, shm_result,
                   eexist_count, memfd_last, normVars>>

\* other processes create and unlink objects in the same namespace; the
\* namespace is followed only while create_shm_fd is about to look at it
EnvShmCreate(n) ==
    /\ shm_pc = "shm_open"
    /\ n \notin shm_objects
    /\ shm_objects' = shm_objects \cup {n}
    /\ UNCHANGED <<mainVars, err_log, shm_pc, mem_file_handle, sys_time, shm_fd,
                   shm_errno, shm_result, eexist_count, memfd_last, normVars>>

EnvShmUnlink(n) ==
    /\ shm_pc = "shm_open"
    /\ n \in shm_objects
    /\ shm_objects' = shm_objects \ {n}
    /\ UNCHANGED <<mainVars, err_log, shm_pc, mem_file_handle, sys_time, shm_fd,
                   shm_errno, shm_result, eexist_count, memfd_last, normVars>>


\* shm_open(O_CREAT | O_EXCL ..) => Ok(fd)
ShmOpenOk(fd) ==
    /\ shm_pc = "shm_open"
    /\ mem_file_handle \notin shm_objects
    /\ shm_objects' = shm_objects \cup {mem_file_handle}
    /\ shm_fd' = Some(fd)
    /\ shm_pc' = "shm_unlink"
    /\ UNCHANGED <<mainVars, err_log, mem_file_handle, sys_time, shm_errno,
                   shm_result, eexist_count, memfd_last, normVars>>

\* faulty variant: no EEXIST arm, the collision is returned like any other errno
ShmOpenEexistReturned ==
    /\ shm_pc = "shm_open"
    /\ eexist_count < MaxShmTries
    /\ mem_file_handle \in shm_objects
    /\ eexist_count' = eexist_count + 1
    /\ shm_result' = Some(Err("EEXIST"))
    /\ shm_pc' = "return"
    /\ UNCHANGED <<mainVars, err_log, mem_file_handle, sys_time, shm_objects,
                   shm_fd, shm_errno, memfd_last, normVars>>

\* Err(EEXIST) => the handle is formatted again from sys_time; continue
ShmOpenEexist ==
    /\ shm_pc = "shm_open"
    /\ eexist_count < MaxShmTries
    /\ mem_file_handle \in shm_objects
    /\ mem_file_handle' = HandleFor(sys_time)
    /\ eexist_count' = eexist_count + 1
    /\ UNCHANGED <<mainVars, err_log, shm_pc, sys_time, shm_objects, shm_fd,
                   shm_errno, shm_result, memfd_last, normVars>>

\* Err(EINTR) => continue
ShmOpenEintr ==
    /\ shm_pc = "shm_open"
    /\ UNCHANGED vars

\* Err(errno) => return Err(errno)
ShmOpenErr(errno) ==
    /\ shm_pc = "shm_open"
    /\ err_log' = err_log \cup {errno}
    /\ shm_result' = Some(Err(errno))
    /\ shm_pc' = "return"
    /\ UNCHANGED <<mainVars, mem_file_handle, sys_time, shm_objects, shm_fd,
                   shm_errno, eexist_count, memfd_last, normVars>>

\* shm_unlink(..) => Ok(_) => return Ok(fd)
ShmUnlinkOk ==
    /\ shm_pc = "shm_unlink"
    /\ shm_objects' = shm_objects \ {mem_file_handle}
    /\ shm_result' = Some(Ok(Unwrap(shm_fd)))
    /\ shm_pc' = "return"
    /\ UNCHANGED <<mainVars, err_log, mem_file_handle, sys_time, shm_fd, shm_errno,
                   eexist_count, memfd_last, normVars>>

\* shm_unlink(..) => Err(errno) => match unistd::close(fd)
ShmUnlinkErr(errno) ==
    /\ shm_pc = "shm_unlink"
    /\ err_log' = err_log \cup {errno}
    /\ shm_errno' = errno
    /\ shm_pc' = "close"
    /\ UNCHANGED <<mainVars, mem_file_handle, sys_time, shm_objects, shm_fd,
                   shm_result, eexist_count, memfd_last, normVars>>

\* close(fd) => Ok(_) => return Err(errno) with the errno of shm_unlink
ShmCloseOk ==
    /\ shm_pc = "close"
    /\ shm_result' = Some(Err(shm_errno))
    /\ shm_fd' = None
    /\ shm_pc' = "return"
    /\ UNCHANGED <<mainVars, err_log, mem_file_handle, sys_time, shm_objects,
                   shm_errno, eexist_count, memfd_last, normVars>>

\* close(fd) => Err(errno) => return Err(errno): the inner errno shadows
ShmCloseErr(errno) ==
    /\ shm_pc = "close"
    /\ err_log' = err_log \cup {errno}
    /\ shm_result' = Some(Err(errno))
    /\ shm_pc' = "return"
    /\ UNCHANGED <<mainVars, mem_file_handle, sys_time, shm_objects, shm_fd,
                   shm_errno, eexist_count, memfd_last, normVars>>

\* let mem_fd = create_shm_fd()?; the callee's locals are gone, and the
\* namespace is no longer looked at
ReturnCreateShmFd ==
    /\ pc = "in_create_shm"
    /\ shm_pc = "return"
    /\ IF Unwrap(shm_result).ok
         THEN /\ mem_fd' = Some(Unwrap(shm_result).fd)
              /\ pc' = "set_len"
              /\ UNCHANGED <<exit_status, error, err_log>>
         ELSE /\ Fail("AllocationError")
              /\ UNCHANGED mem_fd
    /\ shm_pc' = "idle"
    /\ mem_file_handle' = <<>>
    /\ sys_time' = 0
    /\ shm_objects' = {}
    /\ shm_fd' = None
    /\ shm_errno' = ""
    /\ eexist_count' = 0
    /\ memfd_last' = ""
    /\ UNCHANGED <<discVars, frameVars, selVars, file_len, pool, buffer,
                   copy_sent, outVars, shm_result, normVars>>

\* faulty variant: let _ = mem_file.set_len(..); the file keeps length 0
SetLenUnchecked ==
    /\ pc = "set_len"
    /\ \/ /\ file_len' = Some(frame_bytes)
          /\ UNCHANGED err_log
       \/ /\ file_len' = Some(0)
          /\ err_log' = err_log \cup {"IOError"}
    /\ pc' = "bind_shm"
    /\ UNCHANGED <<exit_status, error, discVars, frameVars, selVars, mem_fd,
                   pool, buffer, copy_sent, outVars, shmVars, normVars>>

\* mem_file.set_len(frame_bytes as u64)?
SetLen ==
    /\ pc = "set_len"
    /\ \/ /\ file_len' = Some(frame_bytes)
          /\ pc' = "bind_shm"
          /\ UNCHANGED <<exit_status, error, err_log>>
       \/ /\ Fail("IOError")
          /\ UNCHANGED file_len
    /\ UNCHANGED <<discVars, frameVars, selVars, mem_fd, pool, buffer,
                   copy_sent, outVars, shmVars, normVars>>

\* globals.instantiate_exact::<WlShm>(1)?
BindShm ==
    /\ pc = "bind_shm"
    /\ IF "wl_shm" \in globals
         THEN pc' = "create_pool" /\ UNCHANGED <<exit_status, error, err_log>>
         ELSE Fail("MissingGlobal")
    /\ UNCHANGED <<discVars, frameVars, selVars, bufVars, outVars, shmVars,
                   normVars>>

\* shm.create_pool(mem_fd, frame_bytes as i32)
CreatePool ==
    /\ pc = "create_pool"
    /\ pool' = Some([fd |-> Unwrap(mem_fd), size |-> AsI32(frame_bytes)])
    /\ pc' = "create_buffer"
    /\ UNCHANGED <<exit_status, error, err_log, discVars, frameVars, selVars, mem_fd,
                   file_len, buffer, copy_sent, outVars, shmVars, normVars>>

\* pool.create_buffer(0, width as i32, height as i32, stride as i32, format)
CreateBuffer ==
    /\ pc = "create_buffer"
    /\ LET f == Unwrap(frame_format)
       IN  buffer' = Some([offset |-> 0,
                           width  |-> AsI32(f.width),
                           height |-> AsI32(f.height),
                           stride |-> AsI32(f.stride),
                           format |-> f.format])
    /\ pc' = "copy"
    /\ UNCHANGED <<exit_status, error, err_log, discVars, frameVars, selVars, mem_fd,
                   file_len, pool, copy_sent, outVars, shmVars, normVars>>

\* frame.copy(&buffer)
Copy ==
    /\ pc = "copy"
    /\ copy_sent' = TRUE
    /\ pc' = "rt_copy"
    /\ UNCHANGED <<exit_status, error, err_log, discVars, frameVars, selVars, mem_fd,
                   file_len, pool, buffer, outVars, shmVars, normVars>>

-----------------------------------------------------------------------------
(* Copy result, normalization, encoding *)

\* faulty variant: the loop gives up when no result has arrived
CheckStateGivesUp ==
    /\ pc = "check_state"
    /\ frame_state' = None
    /\ CASE frame_state = None ->
              Fail("TimedOut")
         [] frame_state = Some("Failed") ->
              Fail("CaptureFailed")
         [] frame_state = Some("Finished") ->
              pc' = "map" /\ UNCHANGED <<exit_status, error, err_log>>
    /\ UNCHANGED <<discVars, frame_requested, frame_formats,
                   frame_buffer_done, first_terminal, late_events, selVars,
                   bufVars, outVars, shmVars, normVars>>

\* if let Some(state) = frame_state.borrow_mut().take()
CheckState ==
    /\ pc = "check_state"
    /\ frame_state' = None
    /\ CASE frame_state = None ->
              pc' = "rt_copy" /\ UNCHANGED <<exit_status, error, err_log>>
         [] frame_state = Some("Failed") ->
              Fail("CaptureFailed")
         [] frame_state = Some("Finished") ->
              pc' = "map" /\ UNCHANGED <<exit_status, error, err_log>>
    /\ UNCHANGED <<discVars, frame_requested, frame_formats,
                   frame_buffer_done, first_terminal, late_events, selVars, bufVars,
                   outVars, shmVars, normVars>>

\* what the server may have left in a region of n bytes
ServerData(n) == { [i \in 1..n |-> (k * i) % 256] : k \in {17, 255} }

\* MmapMut::map_mut(&mem_file)?, stdout.lock(), BufWriter::new(guard)
MapBuffer ==
    /\ pc = "map"
    /\ \/ /\ \E d \in ServerData(Unwrap(file_len)) : mmap' = Some(d)
          /\ pc' = "normalize"
          /\ UNCHANGED <<exit_status, error, err_log>>
       \/ /\ Fail("IOError")
          /\ UNCHANGED mmap
    /\ writer' = <<>>
    /\ UNCHANGED <<discVars, frameVars, selVars, bufVars, color_type,
                   enc_pos, stdout, shmVars, normVars>>

\* faulty variant: chunk[0] = chunk[2]; chunk[2] = chunk[0]; without the temporary
SwapChunkNoTmp(chunk) == [chunk EXCEPT ![1] = chunk[3]]

\* let tmp = chunk[0]; chunk[0] = chunk[2]; chunk[2] = tmp;
SwapChunk(chunk) == [chunk EXCEPT ![1] = chunk[3], ![3] = chunk[1]]

\* for chunk in data.chunks_exact_mut(4) { .. }: whole groups of 4 only
RECURSIVE SwapChunks(_)
SwapChunks(data) ==
    IF Len(data) < 4
      THEN data
      ELSE SwapChunk(SubSeq(data, 1, 4)) \o SwapChunks(SubSeq(data, 5, Len(data)))

\* faulty variant: Xbgr8888 listed in the swapping arm
NormalizeSwapAll(format, data) ==
    IF format \in {"Argb8888", "Xrgb8888", "Xbgr8888"}
      THEN [ok |-> TRUE, data |-> SwapChunks(data), color_type |-> "Rgba8"]
      ELSE [ok |-> FALSE, data |-> data, color_type |-> ""]

\* let color_type = match frame_format.format { .. }
Normalize(format, data) ==
    CASE format \in {"Argb8888", "Xrgb8888"} ->
           [ok |-> TRUE, data |-> SwapChunks(data), color_type |-> "Rgba8"]
      [] format = "Xbgr8888" ->
           [ok |-> TRUE, data |-> data, color_type |-> "Rgba8"]
      [] OTHER ->
           [ok |-> FALSE, data |-> data, color_type |-> ""]

NormalizeStep ==
    /\ pc = "normalize"
    /\ LET r == Normalize(Unwrap(frame_format).format, Unwrap(mmap))
       IN  IF r.ok
             THEN /\ mmap' = Some(r.data)
                  /\ color_type' = r.color_type
                  /\ pc' = "encode"
                  /\ UNCHANGED <<exit_status, error, err_log>>
             ELSE /\ Fail("UnsupportedBufferFormat")
                  /\ UNCHANGED <<mmap, color_type>>
    /\ UNCHANGED <<discVars, frameVars, selVars, bufVars, writer, enc_pos,
                   stdout, shmVars, normVars>>

\* what JpegEncoder::write_image hands to the writer, segment by segment;
\* every segment is smaller than the BufWriter's capacity
EncodedStream(data, width, height, ct) ==
    << <<"SOI">>, <<"SOF", width, height, ct>>, <<"SOS", data>>, <<"EOI">> >>

Stream ==
    LET f == Unwrap(frame_format)
    IN  EncodedStream(Unwrap(mmap), f.width, f.height, color_type)

\* BufWriter::write: the held bytes go out first when the new ones do not fit
NeedFlush == Len(writer) + 1 > BufCapacity

\* one write of the encoder accepted by the BufWriter
EncodeWrite ==
    /\ pc = "encode"
    /\ enc_pos < Len(Stream)
    /\ stdout' = IF NeedFlush THEN stdout \o writer ELSE stdout
    /\ writer' = Append(IF NeedFlush THEN <<>> ELSE writer, Stream[enc_pos + 1])
    /\ enc_pos' = enc_pos + 1
    /\ UNCHANGED <<ctlVars, discVars, frameVars, selVars, bufVars, mmap,
                   color_type, shmVars, normVars>>

\* leaving main with an error drops the BufWriter, whose Drop tries once
\* more to write what it holds and ignores the outcome
DropWriter ==
    /\ \/ stdout' = stdout \o writer
       \/ stdout' = stdout
    /\ writer' = <<>>

\* the write to standard output fails inside a write of the encoder:
\* write_image(..)? returns the error
EncodeWriteErr ==
    /\ pc = "encode"
    /\ enc_pos < Len(Stream)
    /\ NeedFlush
    /\ Fail("EncodeError")
    /\ DropWriter
    /\ UNCHANGED <<discVars, frameVars, selVars, bufVars, mmap, color_type,
                   enc_pos, shmVars, normVars>>

\* write_image returned Ok
EncodeDone ==
    /\ pc = "encode"
    /\ enc_pos = Len(Stream)
    /\ pc' = "flush"
    /\ UNCHANGED <<exit_status, error, err_log, discVars, frameVars, selVars, bufVars,
                   outVars, shmVars, normVars>>

\* writer.flush()?; break Ok(())
Flush ==
    /\ pc = "flush"
    /\ \/ /\ stdout' = stdout \o writer
          /\ writer' = <<>>
          /\ pc' = "exit"
          /\ exit_status' = "ok"
          /\ UNCHANGED <<error, err_log>>
       \/ /\ Fail("IOError")
          /\ DropWriter
    /\ UNCHANGED <<discVars, frameVars, selVars, bufVars, mmap, color_type,
                   enc_pos, shmVars, normVars>>

-----------------------------------------------------------------------------
(* The run *)

Next ==
    \/ Connect
    \/ RoundtripErr
    \/ RoundtripGlobals
    \/ BindOutput
    \/ \E ev \in OutputEvents : OutputEvent(ev)
    \/ OutputsLoop
    \/ RoundtripOk
    \/ PickOutput
    \/ BindScreencopy
    \/ CaptureOutput
    \/ \E f \in BufferChoices : OnBuffer(f)
    \/ OnFlags
    \/ OnDamage
    \/ OnLinuxDmabuf
    \/ OnReady
    \/ OnFailed
    \/ OnBufferDone
    \/ FormatsLoop
    \/ SelectFormat
    \/ ComputeFrameBytes
    \/ CallCreateShmFd
    \/ \E fd \in RunFds, sealed \in BOOLEAN : MemfdOk(fd, sealed)
    \/ MemfdEintr
    \/ MemfdEnosys
    \/ \E e \in RunErrnos : MemfdErr(e)
    \/ \E t \in RunNanos : ShmFallback(t)
    \/ \E t \in RunNanos : EnvShmCreate(HandleFor(t))
    \/ \E t \in RunNanos : EnvShmUnlink(HandleFor(t))
    \/ \E fd \in RunFds : ShmOpenOk(fd)
    \/ ShmOpenEexist
    \/ ShmOpenEintr
    \/ \E e \in RunErrnos : ShmOpenErr(e)
    \/ ShmUnlinkOk
    \/ \E e \in RunErrnos : ShmUnlinkErr(e)
    \/ ShmCloseOk
    \/ \E e \in RunErrnos : ShmCloseErr(e)
    \/ ReturnCreateShmFd
    \/ SetLen
    \/ BindShm
    \/ CreatePool
    \/ CreateBuffer
    \/ Copy
    \/ CheckState
    \/ MapBuffer
    \/ NormalizeStep
    \/ EncodeWrite
    \/ EncodeWriteErr
    \/ EncodeDone
    \/ Flush

Spec == Init /\ [][Next]_vars

-----------------------------------------------------------------------------
(* create_shm_fd followed on its own, from the point where main calls it *)

AllocInit ==
    /\ pc = "create_shm"
    /\ exit_status = "running"
    /\ error = ""
    /\ globals = Interfaces
    /\ outputs = <<"wl_output">>
    /\ outputs_done = TRUE
    /\ output = Some("wl_output")
    /\ frame_requested = TRUE
    /\ frame_formats =
          <<[format |-> "Argb8888", width |-> 2, height |-> 1, stride |-> 8]>>
    /\ frame_state = None
    /\ frame_buffer_done = TRUE
    /\ frame_format = Some(frame_formats[1])
    /\ frame_bytes = 8
    /\ mem_fd = None
    /\ file_len = None
    /\ pool = None
    /\ buffer = None
    /\ copy_sent = FALSE
    /\ mmap = None
    /\ color_type = ""
    /\ writer = <<>>
    /\ enc_pos = 0
    /\ stdout = <<>>
    /\ first_terminal = ""
    /\ late_events = {}
    /\ err_log = {}
    /\ ShmInit
    /\ NormIdle

AllocNext ==
    \/ CallCreateShmFd
    \/ \E fd \in Fds, sealed \in BOOLEAN : MemfdOk(fd, sealed)
    \/ MemfdEintr
    \/ MemfdEnosys
    \/ \E e \in Errnos : MemfdErr(e)
    \/ \E t \in Nanos : ShmFallback(t)
    \/ \E t \in Nanos : EnvShmCreate(HandleFor(t))
    \/ \E t \in Nanos : EnvShmUnlink(HandleFor(t))
    \/ \E fd \in Fds : ShmOpenOk(fd)
    \/ ShmOpenEexist
    \/ ShmOpenEintr
    \/ \E e \in Errnos : ShmOpenErr(e)
    \/ ShmUnlinkOk
    \/ \E e \in Errnos : ShmUnlinkErr(e)
    \/ ShmCloseOk
    \/ \E e \in Errnos : ShmCloseErr(e)
    \/ ReturnCreateShmFd

AllocSpec == AllocInit /\ [][AllocNext]_vars

-----------------------------------------------------------------------------
(* The capture followed from the point where the frame was requested, with *)
(* the scheduling of the process stated                                    *)

\* the state after capture_output: one output was found and picked
CaptureInit ==
    /\ pc = "wait_formats"
    /\ exit_status = "running"
    /\ error = ""
    /\ globals \in {g \in SUBSET Interfaces :
                      {"wl_output", "zwlr_screencopy_manager_v1"} \subseteq g}
    /\ outputs = <<"wl_output">>
    /\ outputs_done = TRUE
    /\ output = Some("wl_output")
    /\ frame_requested = TRUE
    /\ frame_formats = <<>>
    /\ frame_state = None
    /\ frame_buffer_done = FALSE
    /\ frame_format = None
    /\ frame_bytes = 0
    /\ mem_fd = None
    /\ file_len = None
    /\ pool = None
    /\ buffer = None
    /\ copy_sent = FALSE
    /\ mmap = None
    /\ color_type = ""
    /\ writer = <<>>
    /\ enc_pos = 0
    /\ stdout = <<>>
    /\ first_terminal = ""
    /\ late_events = {}
    /\ err_log = {}
    /\ ShmInit
    /\ NormIdle

\* the steps of main from the format loop on, and the frame's events
CaptureNext ==
    \/ RoundtripErr
    \/ RoundtripOk
    \/ \E f \in BufferChoices : OnBuffer(f)
    \/ OnFlags
    \/ OnDamage
    \/ OnLinuxDmabuf
    \/ OnReady
    \/ OnFailed
    \/ OnBufferDone
    \/ FormatsLoop
    \/ SelectFormat
    \/ ComputeFrameBytes
    \/ CallCreateShmFd
    \/ \E fd \in RunFds, sealed \in BOOLEAN : MemfdOk(fd, sealed)
    \/ MemfdEintr
    \/ MemfdEnosys
    \/ \E e \in RunErrnos : MemfdErr(e)
    \/ \E t \in RunNanos : ShmFallback(t)
    \/ \E t \in RunNanos : EnvShmCreate(HandleFor(t))
    \/ \E t \in RunNanos : EnvShmUnlink(HandleFor(t))
    \/ \E fd \in RunFds : ShmOpenOk(fd)
    \/ ShmOpenEexist
    \/ ShmOpenEintr
    \/ \E e \in RunErrnos : ShmOpenErr(e)
    \/ ShmUnlinkOk
    \/ \E e \in RunErrnos : ShmUnlinkErr(e)
    \/ ShmCloseOk
    \/ \E e \in RunErrnos : ShmCloseErr(e)
    \/ ReturnCreateShmFd
    \/ SetLen
    \/ BindShm
    \/ CreatePool
    \/ CreateBuffer
    \/ Copy
    \/ CheckState
    \/ MapBuffer
    \/ NormalizeStep
    \/ EncodeWrite
    \/ EncodeWriteErr
    \/ EncodeDone
    \/ Flush

\* a step of the program's own control flow: main is sequential, every call
\* it makes returns, and nothing but the process itself can hold it back
ProgramStep ==
    CaptureNext /\ (pc' # pc \/ shm_pc' # shm_pc \/ enc_pos' # enc_pos)

\* the capture as scheduled: it keeps running while it has a step to take
LiveSpec == CaptureInit /\ [][CaptureNext]_vars /\ WF_vars(ProgramStep)

-----------------------------------------------------------------------------
(* The normalization applied on its own to bounded buffers *)

ByteChoices == {17, 34, 255}

ExampleBuffer == <<17, 34, 51, 255, 68, 85, 102, 255>>

Buffers ==
    UNION { [1..n -> ByteChoices] : n \in 0..MaxBufLen } \cup {ExampleBuffer}

NormInit ==
    /\ MainInit
    /\ ShmInit
    /\ n_fmt \in SupportedFormats
    /\ n_buf \in Buffers
    /\ n_orig = n_buf
    /\ n_count = 0

\* one pass of the match over the whole buffer
NormApply ==
    /\ n_count < 2
    /\ Normalize(n_fmt, n_buf).ok
    /\ n_buf' = Normalize(n_fmt, n_buf).data
    /\ n_count' = n_count + 1
    /\ UNCHANGED <<mainVars, err_log, shmVars, n_fmt, n_orig>>

NormNext == NormApply

NormSpec == NormInit /\ [][NormNext]_vars

-----------------------------------------------------------------------------
(* Claims *)

Terminated == pc = "exit"
FailedRun == exit_status \in {"error", "panic"}

\* C1: once a Failed event has been delivered with no Ready event before
\* it, the run never ends successfully and standard output stays empty,
\* whatever is delivered afterwards
C1_FailedFirstNeverSucceeds ==
    first_terminal = "Failed" => (exit_status # "ok" /\ stdout = <<>>)

NoneSupported(formats) ==
    \A i \in 1..Len(formats) :
        formats[i].format \notin {"Argb8888", "Xrgb8888", "Xbgr8888"}

CreateShmFdCalled == shm_pc # "idle" \/ shm_result # None

Provisioned ==
    \/ CreateShmFdCalled
    \/ mem_fd # None
    \/ file_len # None
    \/ pool # None
    \/ buffer # None
    \/ copy_sent

\* C2: when the wait for BufferDone is over and no accumulated format is a
\* supported one, the next step ends the run with the unsupported-format
\* error; and a run ended by that error has not called create_shm_fd, has
\* created no pool and no buffer and has sent no copy request
C2_NoSupportedNeverProvisions ==
    /\ [](pc = "select" => ~Provisioned)
    /\ [](error = "UnsupportedFormat" =>
            /\ Terminated
            /\ exit_status = "error"
            /\ NoneSupported(frame_formats)
            /\ ~Provisioned)
    /\ [][(pc = "select" /\ NoneSupported(frame_formats)) =>
            (pc' = "exit" /\ error' = "UnsupportedFormat")]_vars

C2_Witness ==
    /\ Terminated
    /\ error = "UnsupportedFormat"
    /\ Len(frame_formats) >= 2
    /\ ~Provisioned

FirstSupportedIndex(formats, i) ==
    /\ i \in 1..Len(formats)
    /\ ~NoneSupported(<<formats[i]>>)
    /\ \A j \in 1..(i - 1) : NoneSupported(<<formats[j]>>)

\* C3: the selected FrameFormat is, whole, the entry of frame_formats with
\* the smallest index among the supported ones; the steps after the
\* selection are only taken with a selected format
C3_SelectsFirstSupported ==
    /\ IsSome(frame_format) =>
          \E i \in 1..Len(frame_formats) :
              /\ FirstSupportedIndex(frame_formats, i)
              /\ Unwrap(frame_format) = frame_formats[i]
    /\ pc = "frame_bytes" => IsSome(frame_format)
    /\ (pc = "exit" /\ error = "UnsupportedFormat") => frame_format = None

C3_Witness ==
    /\ pc = "frame_bytes"
    /\ Len(frame_formats) = 3
    /\ frame_formats[1].format = "Rgb565"
    /\ frame_formats[2].format = "Xbgr8888"
    /\ frame_formats[3].format = "Argb8888"
    /\ Unwrap(frame_format) = frame_formats[2]

\* C4: the copy request is sent only after BufferDone was received, a
\* format was selected, the region was allocated and sized and the pool
\* and the buffer were created from it, each step after the one before
C4_CopyOnlyAfterNegotiation ==
    /\ copy_sent => IsSome(buffer)
    /\ IsSome(buffer) =>
          /\ IsSome(pool)
          /\ Unwrap(buffer).format = Unwrap(frame_format).format
    /\ IsSome(pool) =>
          /\ IsSome(file_len)
          /\ Unwrap(pool).fd = Unwrap(mem_fd)
    /\ IsSome(file_len) => IsSome(mem_fd)
    /\ IsSome(mem_fd) => IsSome(frame_format)
    /\ CreateShmFdCalled => IsSome(frame_format)
    /\ IsSome(frame_format) => frame_buffer_done

C4_Witness ==
    /\ copy_sent
    /\ pc = "rt_copy"
    /\ IsSome(buffer)

\* C5: the length given to set_len and the size given to create_pool are
\* both the exact product stride * height of the selected format
C5_SizesAreExactProduct ==
    IsSome(pool) =>
        LET f == Unwrap(frame_format)
        IN  /\ Unwrap(file_len) = f.stride * f.height
            /\ Unwrap(pool).size = f.stride * f.height

\* C6: a run that ends successfully has written exactly the complete
\* encoded stream to standard output, and a run that ends with an error
\* has written nothing
C6_StdoutAllOrNothing ==
    /\ exit_status = "ok" => stdout = Stream
    /\ FailedRun => stdout = <<>>

\* C7: for a supported format, two passes of the normalization give back
\* the original buffer
C7_Involution ==
    n_count = 2 => n_buf = n_orig

C7_Witness ==
    /\ n_count = 2
    /\ n_fmt = "Xrgb8888"
    /\ Len(n_orig) = 5
    /\ n_orig[1] # n_orig[3]

Reversed == {"Argb8888", "Xrgb8888"}

\* bytes 0 and 2 of each complete group of 4 exchanged, the rest kept
ReferenceTransform(format, data) ==
    LET whole == 4 * (Len(data) \div 4)
    IN  [i \in 1..Len(data) |->
            IF format \in Reversed /\ i <= whole
              THEN CASE (i - 1) % 4 = 0 -> data[i + 2]
                     [] (i - 1) % 4 = 2 -> data[i - 2]
                     [] OTHER -> data[i]
              ELSE data[i]]

\* C8: one pass of the normalization gives the reference transform of the
\* buffer, and the 2x1 example in reversed order becomes
\* 33 22 11 FF 66 55 44 FF (hexadecimal)
C8_MatchesReference ==
    n_count = 1 =>
        /\ n_buf = ReferenceTransform(n_fmt, n_orig)
        /\ (n_orig = ExampleBuffer /\ n_fmt \in Reversed) =>
              n_buf = <<51, 34, 17, 255, 102, 85, 68, 255>>
        /\ n_fmt = "Xbgr8888" => n_buf = n_orig

C8_Witness ==
    /\ n_count = 1
    /\ n_fmt = "Argb8888"
    /\ n_orig = ExampleBuffer
    /\ n_buf = <<51, 34, 17, 255, 102, 85, 68, 255>>

\* C9: in the shm_open fallback, when creation reported EEXIST twice and
\* then succeeded and the unlink succeeded, create_shm_fd returns Ok with
\* the descriptor of that creation; no collision is ever returned as an
\* error
C9_CollisionsThenOk ==
    shm_pc = "return" =>
        /\ (eexist_count = 2 /\ IsSome(shm_fd) /\ shm_errno = "") =>
              shm_result = Some(Ok(Unwrap(shm_fd)))
        /\ Unwrap(shm_result).errno # "EEXIST"

C9_Witness ==
    /\ shm_pc = "return"
    /\ eexist_count = 2
    /\ shm_fd = Some(4)
    /\ shm_result = Some(Ok(4))

\* C10: a run in which the server advertised no output and which got past
\* the first round-trip ends with the no-output-available error
C10_NoOutputError ==
    (Terminated /\ "wl_output" \notin globals
       /\ error \notin {"ConnectionError", "RoundtripError"}) =>
        error = "NoOutputAvailable"

\* C11 as stated: a run that ends successfully has met no error outcome
\* other than the retried EINTR and EEXIST
C11_NoErrorIgnored ==
    exit_status = "ok" => err_log = {}

\* C11 amended: a run that ends successfully has met no error outcome
\* other than the retried ones and a failure to apply the seals
C11_OnlySealErrorIgnored ==
    exit_status = "ok" => err_log \subseteq {"F_ADD_SEALS"}

C11_Witness ==
    /\ exit_status = "ok"
    /\ err_log = {"F_ADD_SEALS"}

\* C12 as stated: the format used to create the buffer has a stride of at
\* least four bytes per pixel of its width
C12_StrideCoversWidth ==
    IsSome(buffer) =>
        Unwrap(frame_format).stride >= Unwrap(frame_format).width * 4

\* C13 as stated: after shm_open reports EEXIST the next attempt uses a
\* name different from the one that just collided
C13_EexistChangesName ==
    [][(shm_pc = "shm_open" /\ eexist_count' = eexist_count + 1) =>
          mem_file_handle' # mem_file_handle]_vars

\* C14: in the memfd step, EINTR leaves the allocator in the memfd loop
\* with no result; after ENOSYS the fallback is entered with no result yet
\* and the function returns only after shm_open was attempted, never with
\* ENOSYS; any other errno is returned as the error with no shm_open
\* attempt; and a success returns the descriptor with no shm_open attempt
C14_MemfdOutcomes ==
    /\ memfd_last = "EINTR" =>
          /\ shm_pc = "memfd"
          /\ shm_result = None
          /\ err_log = {}
    /\ memfd_last = "ENOSYS" =>
          /\ shm_pc \in {"fallback", "shm_open", "shm_unlink", "close", "return"}
          /\ shm_pc = "fallback" => shm_result = None /\ err_log = {}
          /\ shm_pc = "return" =>
                /\ mem_file_handle # <<>>
                /\ shm_result # Some(Err("ENOSYS"))
    /\ memfd_last \in Errnos =>
          /\ shm_pc = "return"
          /\ shm_result = Some(Err(memfd_last))
          /\ mem_file_handle = <<>>
    /\ memfd_last = "Ok" =>
          /\ shm_pc = "return"
          /\ IsSome(shm_result) /\ Unwrap(shm_result).ok
          /\ mem_file_handle = <<>>

C14_Witness ==
    /\ memfd_last = "ENOSYS"
    /\ shm_pc = "return"
    /\ shm_result = Some(Ok(4))
    /\ eexist_count = 1

\* C15 as stated: when the unlink failed, the error create_shm_fd returns
\* is the errno of shm_unlink, also when the close failed
C15_UnlinkErrnoReturned ==
    (shm_pc = "return" /\ shm_errno # "") =>
        shm_result = Some(Err(shm_errno))

\* the Finished branch of the result loop was taken
FinishedTaken ==
    \/ pc \in {"map", "normalize", "encode", "flush"}
    \/ IsSome(mmap)
    \/ exit_status = "ok"
    \/ stdout # <<>>

\* C16 as stated: the Finished branch is taken only when a Ready event was
\* delivered after the copy request
C16_FinishedOnlyByLateReady ==
    FinishedTaken => "Ready" \in late_events

\* C17 as stated (second case): a run in which BufferDone was delivered
\* and no Ready or Failed ever was ends only when a round-trip fails
C17_NoExitWithoutResult ==
    (pc = "exit" /\ frame_buffer_done /\ first_terminal = "") =>
        error = "RoundtripError"

\* C17 amended: while BufferDone has not been delivered the capture ends
\* only by a failed round-trip; while neither Ready nor Failed has been
\* delivered the process never succeeds and writes nothing, and once the
\* copy request is sent it ends only by a failed round-trip; and a Ready or
\* Failed delivered after the copy request leads to termination
C17_BlocksWithoutEvents ==
    /\ []((pc = "exit" /\ frame_requested /\ ~frame_buffer_done) =>
             (error = "RoundtripError" /\ stdout = <<>>))
    /\ [](first_terminal = "" => (exit_status # "ok" /\ stdout = <<>>))
    /\ []((pc = "exit" /\ copy_sent /\ first_terminal = "") =>
             error = "RoundtripError")
    /\ (late_events \cap {"Ready", "Failed"} # {}) ~> (pc = "exit")

C17_Witness ==
    /\ pc = "exit"
    /\ exit_status = "ok"
    /\ first_terminal = "Ready"
    /\ late_events = {"BufferDone", "Ready"}

\* the steps of main between the selection and the copy request
Provisioning ==
    pc \in {"select", "frame_bytes", "create_shm", "in_create_shm", "set_len",
            "bind_shm", "create_pool", "create_buffer", "copy"}

\* C18: a selected format is never replaced; after the copy request the
\* computed size, the file, the pool and the buffer stay as they are and
\* main never selects, allocates, creates a buffer or requests a copy again;
\* and the image written by a successful run has the width and height the
\* buffer was created with
C18_SelectionImmutable ==
    /\ [][IsSome(frame_format) => frame_format' = frame_format]_vars
    /\ [][copy_sent =>
            /\ copy_sent'
            /\ frame_bytes' = frame_bytes
            /\ <<mem_fd, file_len, pool, buffer>>' =
                  <<mem_fd, file_len, pool, buffer>>]_vars
    /\ [](copy_sent => ~Provisioning)
    /\ [](exit_status = "ok" =>
            /\ Len(stdout) = 4
            /\ stdout[2][2] = Unwrap(buffer).width
            /\ stdout[2][3] = Unwrap(buffer).height
            /\ Unwrap(buffer).format = Unwrap(frame_format).format)

C18_Witness ==
    /\ exit_status = "ok"
    /\ {"Buffer", "BufferDone"} \subseteq late_events
    /\ IsSupported(frame_formats[Len(frame_formats)])
    /\ frame_formats[Len(frame_formats)] # Unwrap(frame_format)

\* C19: once outputs_done is set the list of outputs is not empty, so the
\* loop is left with an output to pick and the run never ends with the
\* no-output error; the output picked is the first element of the list,
\* which is the proxy pushed by the first event delivered
C19_FirstOutputPicked ==
    /\ outputs_done => outputs # <<>>
    /\ pc = "pick_output" => (outputs_done /\ outputs # <<>>)
    /\ error # "NoOutputAvailable"
    /\ IsSome(output) => (outputs # <<>> /\ output = Some(outputs[1]))

C19_Witness ==
    /\ pc = "bind_screencopy"
    /\ outputs_done
    /\ Len(outputs) = MaxOutputs
    /\ output = Some(outputs[1])

====
